---- MODULE Spec2Model ----
(***************************************************************************)
(* A model of the VAURMS server: the tiered-rate bill calculation          *)
(* (models/rate.py) and the KPI aggregation endpoint (api/analytics.py)    *)
(* over the dataset and bill tables.                                       *)
(*                                                                         *)
(* Money and consumption are whole numbers of the smallest unit; the       *)
(* collection rate is kept in tenths of a percent, the resolution          *)
(* round(collection_rate, 1) gives it.                                     *)
(***************************************************************************)
EXTENDS Integers, Sequences, FiniteSets, TLC

\* ---------------------------------------------------------------- bounds
MaxTiers == 3
MaxBound == 2
MaxConsumption == 4
MaxBills == 3
NumDatasets == 2
MaxAudits == 2
MaxTime == 1

\* The values a price and a fixed charge are drawn from: a negative one (a
\* malformed structure), zero, and a positive one.
PriceValues == {-1, 0, 2}
FixedChargeValues == {-1, 0, 5}

\* The values a bill's amount is drawn from (a negative one included) and the
\* accounts bills belong to.
AmountValues == {-1, 0, 1, 2}
AccountIds == {"acct-1", "acct-2"}

VARIABLES
    structure_json,   \* RateStructure.structure_json of the rate structure row
    rate_pc,          \* "idle" before calculate_bill was called, "returned" after
    consumption,      \* the argument of the last calculate_bill call
    bill,             \* what that call computed and how it ended
    datasets,         \* the datasets table: dataset id -> status
    bills,            \* the bills table: its rows, by row id
    kpi_pc,           \* the return statement the last get_kpis request left by
    fetched,          \* the rows its Bill query returned, in the order returned
    kpis,             \* the response of that request
    users,            \* the users table: its rows, by id
    perm,             \* the last User.has_permission call and its result
    audits,           \* the audit table: its committed rows, in commit order
    now,              \* the clock datetime.utcnow reads
    sessions,         \* per request in flight: what its db.session holds
    response          \* the last response a handler returned

vars ==
    <<structure_json, rate_pc, consumption, bill,
      datasets, bills, kpi_pc, fetched, kpis,
      users, perm, audits, now, sessions, response>>

rate_vars == <<structure_json, rate_pc, consumption, bill>>
kpi_vars == <<datasets, bills, kpi_pc, fetched, kpis>>
api_vars == <<users, perm, audits, now, sessions, response>>

\* ------------------------------------------------------- rate structures
\* A tier of structure_json['tiers']: has_up_to is whether the key 'up_to' is
\* present (an unbounded tier has none, and tier.get('up_to', float('inf'))
\* gives infinity); up_to is its value when present.
Tiers ==
    [has_up_to : {TRUE}, up_to : 1..MaxBound, price : PriceValues]
    \cup [has_up_to : {FALSE}, up_to : {0}, price : PriceValues]

TierLists == UNION {[1..n -> Tiers] : n \in 0..MaxTiers}

\* structure_json: falsy (None or {}) or a dict with fixed_charge and tiers.
Structures ==
    [falsy : {FALSE}, fixed_charge : FixedChargeValues, tiers : TierLists]
    \cup {[falsy |-> TRUE, fixed_charge |-> 0, tiers |-> <<>>]}

Min(a, b) == IF a <= b THEN a ELSE b

\* total_charge = fixed_charge
initial_charge_zero(structure) == 0
initial_charge(structure) == structure.fixed_charge

\* tier_limit = tier.get('up_to', float('inf'));
\* tier_consumption = min(remaining_consumption, tier_limit)
tier_consumption_default0(remaining_consumption, tier) ==
    IF tier.has_up_to THEN Min(remaining_consumption, tier.up_to) ELSE 0
tier_consumption(remaining_consumption, tier) ==
    IF tier.has_up_to
    THEN Min(remaining_consumption, tier.up_to)
    ELSE remaining_consumption

\* total_charge += tier_consumption * tier_rate
add_charge_minus(total_charge, quantity, tier_rate) ==
    total_charge - quantity * tier_rate
add_charge_assign(total_charge, quantity, tier_rate) == quantity * tier_rate
add_charge(total_charge, quantity, tier_rate) ==
    total_charge + quantity * tier_rate

\* The loop over the tiers, from tier i on. charged is the tier_consumption of
\* every tier the loop has charged so far.
RECURSIVE tier_loop(_, _, _, _, _)
tier_loop(tiers, i, total_charge, remaining_consumption, charged) ==
    IF i > Len(tiers) \/ remaining_consumption <= 0
    THEN [outcome |-> "return",
          total_charge |-> total_charge,
          remaining_consumption |-> remaining_consumption,
          charged |-> charged]
    ELSE LET quantity == tier_consumption(remaining_consumption, tiers[i])
         IN tier_loop(tiers, i + 1,
                      add_charge(total_charge, quantity, tiers[i].price),
                      remaining_consumption - quantity,
                      Append(charged, quantity))

\* RateStructure.calculate_bill(consumption). It has no raise statement and
\* no validation: every call on numbers returns a number.
calculate_bill(structure, c) ==
    IF structure.falsy
    THEN [outcome |-> "return", total_charge |-> 0,
          remaining_consumption |-> c, charged |-> <<>>]
    ELSE tier_loop(structure.tiers, 1, initial_charge(structure), c, <<>>)

NoBill ==
    [outcome |-> "none", total_charge |-> 0, remaining_consumption |-> 0,
     charged |-> <<>>]

\* The arguments a caller passes: a negative one included.
Consumptions == -1..MaxConsumption


\* ---------------------------------------------------------------- users
\* UserRole
ADMIN == "admin"
ANALYST == "analyst"
VIEWER == "viewer"

\* What the role column of a row can hold: create_user stores data['role']
\* as it comes, so a string that is no UserRole too.
RoleValues == {VIEWER, ANALYST, ADMIN, "guest"}

\* The required_role a caller of has_permission can pass.
RequiredRoleValues == {VIEWER, ANALYST, ADMIN, "guest", "superuser"}

\* User.set_password: the bcrypt hash of a password, its salt left out.
hashpw(password) == <<"bcrypt", password>>

\* User.check_password
check_password_any(user, password) == TRUE
check_password(user, password) == user.password_hash = hashpw(password)

\* create_sample_data(): the three users run.py creates at start-up.
SampleUsers ==
    << [email |-> "admin@vaurms.com", role |-> ADMIN, is_active |-> TRUE,
        password_hash |-> hashpw("admin123")],
       [email |-> "analyst@vaurms.com", role |-> ANALYST, is_active |-> TRUE,
        password_hash |-> hashpw("analyst123")],
       [email |-> "viewer@vaurms.com", role |-> VIEWER, is_active |-> TRUE,
        password_hash |-> hashpw("viewer123")] >>

\* role_hierarchy.get(role, 0)
role_hierarchy(role) ==
    CASE role = VIEWER -> 1
      [] role = ANALYST -> 2
      [] role = ADMIN -> 3
      [] OTHER -> 0

\* User.has_permission(required_role), on a user whose role is role.
has_permission_strict(role, required_role) ==
    role_hierarchy(role) > role_hierarchy(required_role)
has_permission(role, required_role) ==
    role_hierarchy(role) >= role_hierarchy(required_role)

NoPerm ==
    [called |-> FALSE, user_id |-> 0, required_role |-> "", result |-> FALSE]

\* A call of has_permission on the user row user_id.
CallHasPermission ==
    \E user_id \in 1..Len(users), required_role \in RequiredRoleValues :
        /\ perm' = [called |-> TRUE, user_id |-> user_id,
                    required_role |-> required_role,
                    result |-> has_permission(users[user_id].role, required_role)]
        /\ UNCHANGED <<users, audits, now, sessions, response>>
        /\ UNCHANGED rate_vars
        /\ UNCHANGED kpi_vars

\* ------------------------------------------------------------ the ledger
\* The requests the server can be handling at once; each has its db.session.
RequestIds == {"req-1", "req-2"}

\* Python's None, for a column or an argument that holds a string otherwise.
None == "None"
\* user_id is None: no row of users has id 0.
NoUser == 0

\* AuditAction
LOGIN == "login"
LOGOUT == "logout"
UPLOAD == "upload"
USER_CREATE == "user_create"

\* request.remote_addr
RemoteAddr == "10.0.0.1"

\* A payload argument: None, or a dict given as its set of <<key, value>> items.
NoPayload == [is_none |-> TRUE, items |-> {}]
dict(items) == [is_none |-> FALSE, items |-> items]

\* "x if resource_id else None": None, 0 and '' are falsy.
truthy(value) == value \notin {None, "0", ""}

\* str(resource_id), on the values above written as Python writes them.
str(value) == value

\* cls(action=..., ...) in log_action: the new Audit object, before the INSERT
\* gives it its id and created_at.
new_audit_entry(action, user_id, resource_type, resource_id, description, payload, ip_address) ==
    [action |-> action,
     user_id |-> user_id,
     resource_type |-> resource_type,
     resource_id |-> IF truthy(resource_id) THEN str(resource_id) ELSE None,
     description |-> description,
     payload_json |-> payload,
     ip_address |-> ip_address]

RECURSIVE max_id(_)
max_id(table) ==
    IF table = <<>> THEN 0
    ELSE LET rest == max_id(SubSeq(table, 1, Len(table) - 1))
             last == table[Len(table)].id
         IN IF last > rest THEN last ELSE rest

\* The id an INSERT gives to a row of an Integer primary key: one more than
\* the largest id in the table.
next_id_first(table) == 1
next_id(table) == max_id(table) + 1

\* db_session.commit() of a session holding one new Audit object: the INSERT
\* fills id and created_at (default=datetime.utcnow) and the row is committed.
flush_lost(table, entry, time) == table
flush_replace(table, entry, time) ==
    IF table = <<>>
    THEN <<entry @@ [id |-> next_id(table), created_at |-> time]>>
    ELSE [table EXCEPT ![Len(table)] =
              entry @@ [id |-> next_id(table) , created_at |-> time]]
flush(table, entry, time) ==
    Append(table, entry @@ [id |-> next_id(table), created_at |-> time])

NoSession == [pc |-> "idle"]

\* db_session.add(audit_entry): the session of request r holds the new object.
added(op, user_id, entry) ==
    [pc |-> "added", op |-> op, user_id |-> user_id, entry |-> entry]

NoResponse ==
    [op |-> "none", principal |-> NoUser, status |-> 0, error |-> None,
     message |-> None, data |-> <<>>, raised |-> None]

\* jsonify(body), status: what a handler returns for the request of principal.
\* raised is the exception the handler caught, which the caller does not see.
Response(op, principal, status, error, message, data, raised) ==
    [op |-> op, principal |-> principal, status |-> status, error |-> error,
     message |-> message, data |-> data, raised |-> raised]

\* What the caller receives of a response.
sent(resp) ==
    [status |-> resp.status, error |-> resp.error, message |-> resp.message,
     data |-> resp.data]

\* User.query.filter_by(email=email, is_active=True).first()
UsersByEmail(email) ==
    {i \in 1..Len(users) : users[i].email = email /\ users[i].is_active}

\* User.query.get(user_id)
UserExists(user_id) == user_id \in 1..Len(users)

\* The exceptions login and logout can catch: the commit of the audit record
\* failing, and request.get_json() refusing the body.
OperationalError == "OperationalError"
BadRequest == "BadRequest"

Exceptions == {OperationalError, BadRequest}

\* except Exception as e, in login and in logout.
login_except(exc) ==
    Response("login", NoUser, 500, "Login failed", None, <<>>, exc)
logout_except(principal, exc) ==
    Response("logout", principal, 500, "Logout failed", None, <<>>, exc)

\* The identities a token can carry: the sample admin and viewer, and an id
\* that names no user until create_user adds a fourth row.
Identities == {1, 3, 4}
LogoutIdentities == {1, 4}

LoginEmails == {"admin@vaurms.com", "viewer@vaurms.com", ""}
LoginPasswords == {"admin123", "viewer123"}

\* Room in the audit table for one more record (the table the model keeps
\* is bounded).
Room ==
    Len(audits) + Cardinality({r \in RequestIds : sessions[r].pc = "added"})
        < MaxAudits

\* login, a body without email or password: 400.
LoginMissingFields ==
    \E email \in LoginEmails :
        /\ email = ""
        /\ response' = Response("login", NoUser, 400,
                                "Email and password are required", None, <<>>,
                                None)
        /\ UNCHANGED <<users, perm, audits, now, sessions>>
        /\ UNCHANGED rate_vars
        /\ UNCHANGED kpi_vars

\* login, no such active user or a wrong password: 401.
LoginInvalidCredentials ==
    \E email \in LoginEmails, password \in LoginPasswords :
        /\ email # ""
        /\ \/ UsersByEmail(email) = {}
           \/ \E i \in UsersByEmail(email) : ~check_password(users[i], password)
        /\ response' = Response("login", NoUser, 401, "Invalid credentials",
                                None, <<>>, None)
        /\ UNCHANGED <<users, perm, audits, now, sessions>>
        /\ UNCHANGED rate_vars
        /\ UNCHANGED kpi_vars

\* login, request.get_json() raises on the body: caught, 500.
LoginBadBody ==
    /\ response' = login_except(BadRequest)
    /\ UNCHANGED <<users, perm, audits, now, sessions>>
    /\ UNCHANGED rate_vars
    /\ UNCHANGED kpi_vars

\* login of request r up to db_session.add in log_action: the credentials
\* are right and the session holds the LOGIN record; the request keeps the
\* email and password of its body.
LoginAdd(r) ==
    \E email \in LoginEmails, password \in LoginPasswords :
        \E i \in UsersByEmail(email) :
            /\ email # ""
            /\ check_password(users[i], password)
            /\ sessions[r].pc = "idle"
            /\ Room
            /\ sessions' =
                   [sessions EXCEPT ![r] =
                       added("login", i,
                             new_audit_entry(LOGIN, i, None, None,
                                             <<"User", email, "logged in">>,
                                             NoPayload, RemoteAddr))
                           @@ [body |-> [email |-> email,
                                         password |-> password]]]
            /\ UNCHANGED <<users, perm, audits, now, response>>
            /\ UNCHANGED rate_vars
            /\ UNCHANGED kpi_vars

\* logout of a token whose user is gone: nothing is logged, 200.
LogoutNoUser ==
    \E principal \in LogoutIdentities :
        /\ ~UserExists(principal)
        /\ response' = Response("logout", principal, 200, None,
                                "Logged out successfully", <<>>, None)
        /\ UNCHANGED <<users, perm, audits, now, sessions>>
        /\ UNCHANGED rate_vars
        /\ UNCHANGED kpi_vars

\* logout of request r up to db_session.add in log_action.
LogoutAdd(r) ==
    \E principal \in LogoutIdentities :
        /\ UserExists(principal)
        /\ sessions[r].pc = "idle"
        /\ Room
        /\ sessions' =
               [sessions EXCEPT ![r] =
                   added("logout", principal,
                         new_audit_entry(LOGOUT, principal, None, None,
                                         <<"User", users[principal].email,
                                           "logged out">>,
                                         NoPayload, RemoteAddr))]
        /\ UNCHANGED <<users, perm, audits, now, response>>
        /\ UNCHANGED rate_vars
        /\ UNCHANGED kpi_vars

\* What login and logout return after log_action returned.
login_ok(user_id) ==
    Response("login", user_id, 200, None, None,
             <<[access_token |-> <<"jwt", user_id>>,
                user |-> [email |-> users[user_id].email,
                          role |-> users[user_id].role]]>>, None)
logout_ok(user_id) ==
    Response("logout", user_id, 200, None, "Logged out successfully", <<>>,
             None)

\* db_session.commit() of request r succeeds, and the handler returns; a
\* direct call of log_action returns the record (status 0: no HTTP response).
CommitOk(r) ==
    /\ sessions[r].pc = "added"
    /\ audits' = flush(audits, sessions[r].entry, now)
    /\ sessions' = [sessions EXCEPT ![r] = NoSession]
    /\ response' =
           IF sessions[r].op = "login" THEN login_ok(sessions[r].user_id)
           ELSE IF sessions[r].op = "logout" THEN logout_ok(sessions[r].user_id)
           ELSE Response("log_action", sessions[r].user_id, 0, None, None,
                         <<audits'[Len(audits')]>>, None)
    /\ UNCHANGED <<users, perm, now>>
    /\ UNCHANGED rate_vars
    /\ UNCHANGED kpi_vars

\* db_session.commit() of request r raises: the session rolls the
\* transaction back and drops the new object, and the handler's except
\* clause answers; a direct call of log_action lets the exception through.
CommitFail(r) ==
    /\ sessions[r].pc = "added"
    /\ sessions' = [sessions EXCEPT ![r] = NoSession]
    /\ response' =
           IF sessions[r].op = "login" THEN login_except(OperationalError)
           ELSE IF sessions[r].op = "logout"
           THEN logout_except(sessions[r].user_id, OperationalError)
           ELSE Response("log_action", sessions[r].user_id, 0, None, None,
                         <<>>, OperationalError)
    /\ UNCHANGED <<users, perm, audits, now>>
    /\ UNCHANGED rate_vars
    /\ UNCHANGED kpi_vars

\* Time passes: datetime.utcnow() reads a later value.
Tick ==
    /\ now < MaxTime
    /\ now' = now + 1
    /\ UNCHANGED <<users, perm, audits, sessions, response>>
    /\ UNCHANGED rate_vars
    /\ UNCHANGED kpi_vars

\* created_at.isoformat()
isoformat(time) == <<"iso-8601", time>>

\* entry.user.email if entry.user else 'System'
user_email(entry) ==
    IF entry.user_id # NoUser /\ UserExists(entry.user_id)
    THEN users[entry.user_id].email
    ELSE "System"

\* The dict get_audit_log builds of an entry.
audit_log_item(entry) ==
    [id |-> entry.id,
     action |-> entry.action,
     user_email |-> user_email(entry),
     timestamp |-> isoformat(entry.created_at),
     description |-> entry.description,
     ip_address |-> entry.ip_address]

\* Audit.get_summary
get_summary(entry) ==
    [action |-> entry.action,
     resource |-> IF entry.resource_type # None /\ entry.resource_type # ""
                     /\ entry.resource_id # None
                  THEN <<entry.resource_type, ":", entry.resource_id>>
                  ELSE None,
     user_email |-> user_email(entry),
     timestamp |-> isoformat(entry.created_at),
     description |-> entry.description]

\* The arguments of a direct call of Audit.log_action.
LogUserIds == {NoUser, 1}
LogResources == {<<None, None>>, <<"dataset", "7">>, <<"dataset", "0">>}
Payloads ==
    {NoPayload,
     dict({<<"rows", "10">>, <<"password", "hunter2">>}),
     dict({<<"rows", "10">>, <<"password", "swordfish">>})}

\* Audit.log_action called by request r, up to db_session.add.
LogActionAdd(r) ==
    \E user_id \in LogUserIds, resource \in LogResources,
       payload \in Payloads :
        /\ sessions[r].pc = "idle"
        /\ Room
        /\ sessions' =
               [sessions EXCEPT ![r] =
                   added("log_action", user_id,
                         new_audit_entry(UPLOAD, user_id, resource[1],
                                         resource[2], "Dataset uploaded",
                                         payload, RemoteAddr))]
        /\ UNCHANGED <<users, perm, audits, now, response>>
        /\ UNCHANGED rate_vars
        /\ UNCHANGED kpi_vars

\* A call of get_summary on a committed record.
CallGetSummary ==
    \E i \in 1..Len(audits) :
        /\ response' = Response("get_summary", NoUser, 0, None, None,
                                <<get_summary(audits[i])>>, None)
        /\ UNCHANGED <<users, perm, audits, now, sessions>>
        /\ UNCHANGED rate_vars
        /\ UNCHANGED kpi_vars

\* .limit(100)
AuditLogLimit == 100

limit(rows, n) == SubSeq(rows, 1, Min(n, Len(rows)))

\* The orders in which rows can be listed.
Orderings(rows) ==
    {[i \in 1..Len(rows) |-> rows[p[i]]] :
        p \in {q \in [1..Len(rows) -> 1..Len(rows)] :
                  \A i, j \in 1..Len(rows) : i # j => q[i] # q[j]}}

\* order_by(Audit.created_at.desc()): the rows, later created_at first; the
\* query names no second key, so rows of one created_at come in any order.
order_by_created_at_desc(rows) ==
    {o \in Orderings(rows) :
        \A i, j \in 1..Len(o) : i < j => o[i].created_at >= o[j].created_at}

\* not (not current_user or current_user.role != UserRole.ADMIN)
IsAdminAnyUser(principal) == UserExists(principal)
IsAdmin(principal) ==
    IF UserExists(principal) THEN users[principal].role = ADMIN ELSE FALSE

\* get_audit_log, the caller is no admin: 403.
GetAuditLogForbidden(principal) ==
        /\ ~IsAdmin(principal)
        /\ response' = Response("get_audit_log", principal, 403,
                                "Admin access required", None, <<>>, None)
        /\ UNCHANGED <<users, perm, audits, now, sessions>>
        /\ UNCHANGED rate_vars
        /\ UNCHANGED kpi_vars

\* get_audit_log, the caller is an admin: the query and its serialization.
GetAuditLogOk(principal) ==
        /\ IsAdmin(principal)
        /\ \E entries \in order_by_created_at_desc(audits) :
               response' =
                   Response("get_audit_log", principal, 200, None, None,
                            LET shown == limit(entries, AuditLogLimit)
                            IN [i \in 1..Len(shown) |-> audit_log_item(shown[i])],
                            None)
        /\ UNCHANGED <<users, perm, audits, now, sessions>>
        /\ UNCHANGED rate_vars
        /\ UNCHANGED kpi_vars

get_audit_log(principal) ==
    GetAuditLogForbidden(principal) \/ GetAuditLogOk(principal)

\* The mock job statuses get_jobs returns.
MockJobs ==
    <<[id |-> 1, type |-> "data_import", status |-> "completed",
       created_at |-> "2024-01-15T10:30:00Z"],
      [id |-> 2, type |-> "forecast_run", status |-> "running",
       created_at |-> "2024-01-15T11:00:00Z"],
      [id |-> 3, type |-> "rate_optimization", status |-> "pending",
       created_at |-> "2024-01-15T11:15:00Z"]>>

\* get_jobs: 403 for a caller that is no admin, else the mock jobs.
get_jobs(principal) ==
        /\ response' =
               IF ~IsAdmin(principal)
               THEN Response("get_jobs", principal, 403,
                             "Admin access required", None, <<>>, None)
               ELSE Response("get_jobs", principal, 200, None, None, MockJobs,
                             None)
        /\ UNCHANGED <<users, perm, audits, now, sessions>>
        /\ UNCHANGED rate_vars
        /\ UNCHANGED kpi_vars

login(r) ==
    LoginMissingFields \/ LoginInvalidCredentials \/ LoginBadBody \/ LoginAdd(r)

logout(r) == LogoutNoUser \/ LogoutAdd(r)

\* The server after run.py started it: the sample users, an empty audit table,
\* no request in flight.
ApiIdle ==
    /\ users = SampleUsers
    /\ perm = NoPerm
    /\ audits = <<>>
    /\ now = 0
    /\ sessions = [r \in RequestIds |-> NoSession]
    /\ response = NoResponse

\* ------------------------------------------------------------- datasets
DatasetIds == 1..NumDatasets

\* DatasetStatus
UPLOADED == "uploaded"
VALIDATED == "validated"
ACTIVE == "active"

\* commit_dataset(dataset_id): the ACTIVE datasets become VALIDATED, this one
\* becomes ACTIVE, and the session commits.
activate(table, dataset_id) ==
    [d \in DatasetIds |->
        IF d = dataset_id THEN ACTIVE
        ELSE IF table[d] = ACTIVE THEN VALIDATED
        ELSE table[d]]

commit_dataset(dataset_id) ==
    /\ datasets' = activate(datasets, dataset_id)
    /\ UNCHANGED <<bills, kpi_pc, fetched, kpis>>
    /\ UNCHANGED rate_vars
    /\ UNCHANGED api_vars

\* ----------------------------------------------------------------- KPIs
BillRows ==
    [account_id : AccountIds, amount : AmountValues, paid_flag : BOOLEAN,
     dataset_id : DatasetIds]

BillTables == UNION {[1..n -> BillRows] : n \in 0..MaxBills}

\* sum(bill.amount for bill in bills): from 0, adding in the list's order.
RECURSIVE sum_amount(_)
sum_amount(rows) ==
    IF rows = <<>> THEN 0
    ELSE sum_amount(SubSeq(rows, 1, Len(rows) - 1)) + rows[Len(rows)].amount

\* sum(bill.amount for bill in bills if bill.paid_flag)
RECURSIVE sum_paid(_)
sum_paid(rows) ==
    IF rows = <<>> THEN 0
    ELSE sum_paid(SubSeq(rows, 1, Len(rows) - 1))
             + (IF rows[Len(rows)].paid_flag THEN rows[Len(rows)].amount ELSE 0)

\* len(set(bill.account_id for bill in bills))
count_customers(rows) ==
    Cardinality({rows[i].account_id : i \in 1..Len(rows)})

\* (total_paid / total_revenue * 100) if total_revenue > 0 else 0, as the
\* fraction num / den.
collection_rate_of(total_paid, total_revenue) ==
    IF total_revenue > 0
    THEN [num |-> total_paid * 100, den |-> total_revenue]
    ELSE [num |-> 0, den |-> 1]

\* round(collection_rate, 1), in tenths: to the nearest tenth, a tie to the
\* even one.
round_1(rate) ==
    LET scaled == rate.num * 10
        q == scaled \div rate.den
        r == scaled % rate.den
    IN IF 2 * r < rate.den THEN q
       ELSE IF 2 * r > rate.den THEN q + 1
       ELSE IF q % 2 = 0 THEN q ELSE q + 1

\* get_mock_kpis(): 2450000, 94.2 percent, 12500.
MockTotalRevenue == 2450000
MockCollectionRate == 942
MockCustomerCount == 12500

get_mock_kpis ==
    [status |-> 200,
     total_revenue |-> MockTotalRevenue,
     collection_rate |-> MockCollectionRate,
     customer_count |-> MockCustomerCount]

\* The response get_kpis computes from a non-empty list of bills. The
\* coverage ratio and the four change fields are literals of the handler and
\* are left out.
computed_kpis(rows) ==
    LET total_revenue == sum_amount(rows)
        total_paid == sum_paid(rows)
    IN [status |-> 200,
        total_revenue |-> total_revenue,
        collection_rate |-> round_1(collection_rate_of(total_paid, total_revenue)),
        customer_count |-> count_customers(rows)]

\* Dataset.query.filter_by(status=ACTIVE)
ActiveDatasets == {d \in DatasetIds : datasets[d] = ACTIVE}

\* Bill.query.filter_by(dataset_id=...).all(): the matching rows, in an order
\* the query does not fix.
QueryResults(dataset_id) ==
    LET ids == {i \in 1..Len(bills) : bills[i].dataset_id = dataset_id}
        orders == {o \in [1..Cardinality(ids) -> ids] :
                      \A a, b \in 1..Cardinality(ids) : a # b => o[a] # o[b]}
    IN {[k \in 1..Cardinality(ids) |-> bills[o[k]]] : o \in orders}

\* get_kpis(): no dataset is ACTIVE.
GetKpisNoActiveDataset ==
    /\ ActiveDatasets = {}
    /\ kpi_pc' = "mock_no_dataset"
    /\ fetched' = <<>>
    /\ kpis' = get_mock_kpis
    /\ UNCHANGED <<datasets, bills>>
    /\ UNCHANGED rate_vars
    /\ UNCHANGED api_vars

\* get_kpis(): the ACTIVE dataset has no bills.
GetKpisNoBills ==
    \E active_dataset \in ActiveDatasets :
        /\ QueryResults(active_dataset) = {<<>>}
        /\ kpi_pc' = "mock_no_bills"
        /\ fetched' = <<>>
        /\ kpis' = get_mock_kpis
        /\ UNCHANGED <<datasets, bills>>
        /\ UNCHANGED rate_vars
        /\ UNCHANGED api_vars

\* get_kpis(): the ACTIVE dataset has bills.
GetKpisComputed ==
    \E active_dataset \in ActiveDatasets :
        \E rows \in QueryResults(active_dataset) :
            /\ rows # <<>>
            /\ kpi_pc' = "computed"
            /\ fetched' = rows
            /\ kpis' = computed_kpis(rows)
            /\ UNCHANGED <<datasets, bills>>
            /\ UNCHANGED rate_vars
            /\ UNCHANGED api_vars

\* get_kpis(): one of its three returns. Its except branch (500) is never
\* taken: nothing in the try block raises on rows with numeric amounts.
get_kpis ==
    \/ GetKpisNoActiveDataset
    \/ GetKpisNoBills
    \/ GetKpisComputed

CommitDataset == \E dataset_id \in DatasetIds : commit_dataset(dataset_id)

NoKpis ==
    [status |-> 0, total_revenue |-> 0, collection_rate |-> 0,
     customer_count |-> 0]

KpiIdle ==
    /\ datasets = [d \in DatasetIds |-> VALIDATED]
    /\ kpi_pc = "idle"
    /\ fetched = <<>>
    /\ kpis = NoKpis

RateIdle ==
    /\ structure_json = [falsy |-> TRUE, fixed_charge |-> 0, tiers |-> <<>>]
    /\ rate_pc = "idle"
    /\ consumption = 0
    /\ bill = NoBill

\* The bills table holds what the ingestion put there; no dataset has been
\* committed yet.
InitKpi ==
    /\ bills \in BillTables
    /\ KpiIdle
    /\ RateIdle
    /\ ApiIdle

NextKpi ==
    \/ CommitDataset
    \/ get_kpis

SpecKpi == InitKpi /\ [][NextKpi]_vars

\* ------------------------------------------- the privileged operations
\* An id of DatasetIds that has no row in the datasets table yet.
NoDataset == "none"

\* User.to_dict: the row without its password_hash.
to_dict(user_id) ==
    [id |-> user_id, email |-> users[user_id].email,
     role |-> users[user_id].role, is_active |-> users[user_id].is_active]

\* get_users: 403 for a caller that is no admin, else every user's to_dict.
get_users(principal) ==
        /\ response' =
               IF ~IsAdmin(principal)
               THEN Response("get_users", principal, 403,
                             "Admin access required", None, <<>>, None)
               ELSE Response("get_users", principal, 200, None, None,
                             [i \in 1..Len(users) |-> to_dict(i)], None)
        /\ UNCHANGED <<users, perm, audits, now, sessions>>
        /\ UNCHANGED rate_vars
        /\ UNCHANGED kpi_vars

\* The bodies of create_user requests: email, password and role.
NewUserEmails == {"new@vaurms.com", "admin@vaurms.com", ""}
NewUserRoles == {VIEWER, "guest"}

\* create_user: 403 for a caller that is no admin, 400 for a body without
\* email or for an email already in the table, else the row is added with the
\* role the body names and committed, 201.
create_user(principal) ==
        /\ IF ~IsAdmin(principal)
           THEN /\ response' = Response("create_user", principal, 403,
                                        "Admin access required", None, <<>>,
                                        None)
                /\ UNCHANGED users
           ELSE \E email \in NewUserEmails, role \in NewUserRoles :
                    IF email = ""
                    THEN /\ response' =
                                Response("create_user", principal, 400,
                                         "Email and password are required",
                                         None, <<>>, None)
                         /\ UNCHANGED users
                    ELSE IF \E i \in 1..Len(users) : users[i].email = email
                    THEN /\ response' =
                                Response("create_user", principal, 400,
                                         "User with this email already exists",
                                         None, <<>>, None)
                         /\ UNCHANGED users
                    ELSE /\ users' =
                                Append(users,
                                       [email |-> email, role |-> role,
                                        is_active |-> TRUE,
                                        password_hash |->
                                            hashpw("new-password")])
                         /\ response' =
                                Response("create_user", principal, 201, None,
                                         None,
                                         <<[id |-> Len(users) + 1,
                                            email |-> email, role |-> role,
                                            is_active |-> TRUE]>>, None)
        /\ UNCHANGED <<perm, audits, now, sessions>>
        /\ UNCHANGED rate_vars
        /\ UNCHANGED kpi_vars

\* The file of an upload request: none, a csv, or a file of another type.
UploadFiles == {"", "data.csv", "data.exe"}

\* The id the INSERT gives the new dataset.
NewDatasetIds ==
    {d \in DatasetIds :
        /\ datasets[d] = NoDataset
        /\ \A e \in DatasetIds : e < d => datasets[e] # NoDataset}

\* upload_dataset: 400 without a file or for a file type not allowed, else
\* the dataset row is added with status UPLOADED and committed, 201. The
\* caller's role is not looked at.
upload_dataset ==
    \E principal \in Identities, file \in UploadFiles :
        /\ IF file = ""
           THEN /\ response' = Response("upload_dataset", principal, 400,
                                        "No file provided", None, <<>>, None)
                /\ UNCHANGED datasets
           ELSE IF file # "data.csv"
           THEN /\ response' = Response("upload_dataset", principal, 400,
                                        "Invalid file type", None, <<>>, None)
                /\ UNCHANGED datasets
           ELSE \E d \in NewDatasetIds :
                    /\ datasets' = [datasets EXCEPT ![d] = UPLOADED]
                    /\ response' = Response("upload_dataset", principal, 201,
                                            None, "File uploaded successfully",
                                            <<[id |-> d, name |-> file,
                                               status |-> UPLOADED]>>, None)
        /\ UNCHANGED <<bills, kpi_pc, fetched, kpis>>
        /\ UNCHANGED <<users, perm, audits, now, sessions>>
        /\ UNCHANGED rate_vars

\* The exception get_or_404 raises, which commit_dataset catches.
NotFound == "NotFound"

\* commit_dataset as a request of a principal: get_or_404 raises for an id
\* without a row and the except clause answers 500; else the dataset is
\* activated as above, 200. The caller's role is not looked at.
CommitDatasetRequest ==
    \E principal \in Identities, dataset_id \in DatasetIds :
        /\ IF datasets[dataset_id] = NoDataset
           THEN /\ response' = Response("commit_dataset", principal, 500,
                                        "404 Not Found", None, <<>>, NotFound)
                /\ UNCHANGED datasets
           ELSE /\ datasets' = activate(datasets, dataset_id)
                /\ response' = Response("commit_dataset", principal, 200, None,
                                        "Dataset activated successfully",
                                        <<[dataset_id |-> dataset_id]>>, None)
        /\ UNCHANGED <<bills, kpi_pc, fetched, kpis>>
        /\ UNCHANGED <<users, perm, audits, now, sessions>>
        /\ UNCHANGED rate_vars

\* ------------------------------------ commit_dataset, statement by statement
\* Concurrent requests run commit_dataset each in the transaction of its own
\* db.session: what a transaction wrote is in the table for the others once
\* it commits.

\* Dataset.query.get_or_404(dataset_id) of request r.
CommitDatasetGet(r) ==
    \E principal \in Identities, dataset_id \in DatasetIds :
        /\ sessions[r].pc = "idle"
        /\ IF datasets[dataset_id] = NoDataset
           THEN /\ response' = Response("commit_dataset", principal, 500,
                                        "404 Not Found", None, <<>>, NotFound)
                /\ UNCHANGED sessions
           ELSE /\ sessions' =
                       [sessions EXCEPT ![r] =
                           [pc |-> "got", op |-> "commit_dataset",
                            user_id |-> principal, dataset_id |-> dataset_id]]
                /\ UNCHANGED response
        /\ UNCHANGED <<datasets, bills, kpi_pc, fetched, kpis>>
        /\ UNCHANGED <<users, perm, audits, now>>
        /\ UNCHANGED rate_vars

\* The rows that transactions other than r's have written and not committed.
WrittenByOthers(r) ==
    UNION {sessions[q].validated :
              q \in {o \in RequestIds \ {r} : sessions[o].pc = "updated"}}

\* Dataset.query.filter_by(status=ACTIVE).update({'status': VALIDATED}) of
\* request r: the UPDATE runs in r's transaction on the rows that are ACTIVE
\* in the table; it waits while another open transaction holds one of them.
\* (A store with a single write lock, as SQLite, admits only the runs in which
\* no other transaction is open here.)
CommitDatasetUpdate(r) ==
    /\ sessions[r].pc = "got"
    /\ ActiveDatasets \cap WrittenByOthers(r) = {}
    /\ sessions' =
           [sessions EXCEPT ![r] =
               [pc |-> "updated", op |-> "commit_dataset",
                user_id |-> sessions[r].user_id,
                dataset_id |-> sessions[r].dataset_id,
                validated |-> ActiveDatasets]]
    /\ UNCHANGED <<datasets, bills, kpi_pc, fetched, kpis>>
    /\ UNCHANGED <<users, perm, audits, now, response>>
    /\ UNCHANGED rate_vars

\* dataset.status = ACTIVE; db.session.commit() of request r: the rows the
\* transaction wrote reach the table, and the handler answers 200.
commit_writes(table, validated, dataset_id) ==
    [d \in DatasetIds |->
        IF d = dataset_id THEN ACTIVE
        ELSE IF d \in validated THEN VALIDATED
        ELSE table[d]]

CommitDatasetCommit(r) ==
    /\ sessions[r].pc = "updated"
    /\ datasets' = commit_writes(datasets, sessions[r].validated,
                                 sessions[r].dataset_id)
    /\ sessions' = [sessions EXCEPT ![r] = NoSession]
    /\ response' = Response("commit_dataset", sessions[r].user_id, 200, None,
                            "Dataset activated successfully",
                            <<[dataset_id |-> sessions[r].dataset_id]>>, None)
    /\ UNCHANGED <<bills, kpi_pc, fetched, kpis>>
    /\ UNCHANGED <<users, perm, audits, now>>
    /\ UNCHANGED rate_vars

\* The UPDATE or the commit of request r raises: db.session.rollback() drops
\* what the transaction wrote, and the handler answers 500.
CommitDatasetRollback(r) ==
    /\ sessions[r].pc \in {"got", "updated"}
    /\ sessions' = [sessions EXCEPT ![r] = NoSession]
    /\ response' = Response("commit_dataset", sessions[r].user_id, 500,
                            "database error", None, <<>>, OperationalError)
    /\ UNCHANGED <<datasets, bills, kpi_pc, fetched, kpis>>
    /\ UNCHANGED <<users, perm, audits, now>>
    /\ UNCHANGED rate_vars

\* -------------------------------------- create_user, statement by statement
\* The exception the INSERT raises on a second row of one email.
IntegrityError == "IntegrityError"

\* email = Column(String(255), unique=True): the INSERT of a row whose email a
\* committed row has is refused.
unique_violation_never(table, email) == FALSE
unique_violation(table, email) ==
    \E i \in 1..Len(table) : table[i].email = email

\* create_user of request r up to db.session.add(new_user): the answers 403
\* and 400 as above; else the session holds the new user.
CreateUserAdd(r) ==
    \E principal \in Identities :
        /\ sessions[r].pc = "idle"
        /\ IF ~IsAdmin(principal)
           THEN /\ response' = Response("create_user", principal, 403,
                                        "Admin access required", None, <<>>,
                                        None)
                /\ UNCHANGED sessions
           ELSE \E email \in NewUserEmails, role \in NewUserRoles :
                    IF email = ""
                    THEN /\ response' =
                                Response("create_user", principal, 400,
                                         "Email and password are required",
                                         None, <<>>, None)
                         /\ UNCHANGED sessions
                    ELSE IF \E i \in 1..Len(users) : users[i].email = email
                    THEN /\ response' =
                                Response("create_user", principal, 400,
                                         "User with this email already exists",
                                         None, <<>>, None)
                         /\ UNCHANGED sessions
                    ELSE /\ sessions' =
                                [sessions EXCEPT ![r] =
                                    [pc |-> "adding", op |-> "create_user",
                                     user_id |-> principal,
                                     new_user |->
                                         [email |-> email, role |-> role,
                                          is_active |-> TRUE,
                                          password_hash |->
                                              hashpw("new-password")]]]
                         /\ UNCHANGED response
        /\ UNCHANGED <<users, perm, audits, now>>
        /\ UNCHANGED rate_vars
        /\ UNCHANGED kpi_vars

\* db.session.commit() of request r: the INSERT and the commit, 201; or the
\* INSERT is refused, the except clause rolls back and answers 500.
CreateUserCommit(r) ==
    /\ sessions[r].pc = "adding"
    /\ IF unique_violation(users, sessions[r].new_user.email)
       THEN /\ response' = Response("create_user", sessions[r].user_id, 500,
                                    "UNIQUE constraint failed: users.email",
                                    None, <<>>, IntegrityError)
            /\ UNCHANGED users
       ELSE /\ users' = Append(users, sessions[r].new_user)
            /\ response' =
                   Response("create_user", sessions[r].user_id, 201, None,
                            None,
                            <<[id |-> Len(users) + 1,
                               email |-> sessions[r].new_user.email,
                               role |-> sessions[r].new_user.role,
                               is_active |-> TRUE]>>, None)
    /\ sessions' = [sessions EXCEPT ![r] = NoSession]
    /\ UNCHANGED <<perm, audits, now>>
    /\ UNCHANGED rate_vars
    /\ UNCHANGED kpi_vars

\* ------------------------------------------------------- specifications
\* A rate structure row holds what its author stored; calculate_bill has not
\* been called yet.
InitRate ==
    /\ structure_json \in Structures
    /\ rate_pc = "idle"
    /\ consumption = 0
    /\ bill = NoBill
    /\ bills = <<>>
    /\ KpiIdle
    /\ ApiIdle

CallCalculateBill ==
    \E c \in Consumptions :
        /\ rate_pc' = "returned"
        /\ consumption' = c
        /\ bill' = calculate_bill(structure_json, c)
        /\ UNCHANGED structure_json
        /\ UNCHANGED kpi_vars
        /\ UNCHANGED api_vars

NextRate == CallCalculateBill

SpecRate == InitRate /\ [][NextRate]_vars

\* The users table holds two rows of any role the column can hold;
\* has_permission has not been called yet.
PermUsers ==
    {<< [email |-> "a@vaurms.com", role |-> r1, is_active |-> TRUE,
         password_hash |-> hashpw("pw-a")],
        [email |-> "b@vaurms.com", role |-> r2, is_active |-> TRUE,
         password_hash |-> hashpw("pw-b")] >> : r1, r2 \in RoleValues}

InitPerm ==
    /\ users \in PermUsers
    /\ perm = NoPerm
    /\ audits = <<>>
    /\ now = 0
    /\ sessions = [r \in RequestIds |-> NoSession]
    /\ response = NoResponse
    /\ bills = <<>>
    /\ KpiIdle
    /\ RateIdle

NextPerm == CallHasPermission

SpecPerm == InitPerm /\ [][NextPerm]_vars

\* The ledger: logins, logouts and audit-log reads of concurrent requests.
InitLedger ==
    /\ ApiIdle
    /\ bills = <<>>
    /\ KpiIdle
    /\ RateIdle

NextLedger ==
    \/ \E r \in RequestIds : login(r)
    \/ \E r \in RequestIds : logout(r)
    \/ \E r \in RequestIds : CommitOk(r)
    \/ \E r \in RequestIds : CommitFail(r)
    \/ Tick
    \/ \E principal \in Identities : get_audit_log(principal)

SpecLedger == InitLedger /\ [][NextLedger]_vars

\* The whole API: the privileged operations next to logins, logouts and
\* audit-log reads, from a server without datasets, serving one request
\* at a time.
SerialRequest == CHOOSE r \in RequestIds : TRUE

InitApi ==
    /\ ApiIdle
    /\ datasets = [d \in DatasetIds |-> NoDataset]
    /\ bills = <<>>
    /\ kpi_pc = "idle"
    /\ fetched = <<>>
    /\ kpis = NoKpis
    /\ RateIdle

NextApi ==
    \/ \E principal \in Identities : get_users(principal)
    \/ \E principal \in Identities : create_user(principal)
    \/ upload_dataset
    \/ CommitDatasetRequest
    \/ \E principal \in Identities : get_audit_log(principal)
    \/ login(SerialRequest)
    \/ logout(SerialRequest)
    \/ CommitOk(SerialRequest)
    \/ CommitFail(SerialRequest)

SpecApi == InitApi /\ [][NextApi]_vars

\* Concurrent commit_dataset requests on uploaded datasets.
InitCommit ==
    /\ ApiIdle
    /\ datasets = [d \in DatasetIds |-> UPLOADED]
    /\ bills = <<>>
    /\ kpi_pc = "idle"
    /\ fetched = <<>>
    /\ kpis = NoKpis
    /\ RateIdle

NextCommit ==
    \/ \E r \in RequestIds : CommitDatasetGet(r)
    \/ \E r \in RequestIds : CommitDatasetUpdate(r)
    \/ \E r \in RequestIds : CommitDatasetCommit(r)
    \/ \E r \in RequestIds : CommitDatasetRollback(r)

SpecCommit == InitCommit /\ [][NextCommit]_vars

\* Logins on a users table in which the admin and the viewer may have been
\* deactivated.
LoginUsers ==
    {[SampleUsers EXCEPT ![1].is_active = a, ![3].is_active = b] :
        a, b \in BOOLEAN}

InitLogin ==
    /\ users \in LoginUsers
    /\ perm = NoPerm
    /\ audits = <<>>
    /\ now = 0
    /\ sessions = [r \in RequestIds |-> NoSession]
    /\ response = NoResponse
    /\ bills = <<>>
    /\ KpiIdle
    /\ RateIdle

SpecLogin == InitLogin /\ [][NextLedger]_vars

\* The admin-only endpoints called by the admin, the analyst, the viewer and
\* an identity that names no user until create_user adds one, next to the
\* logins and logouts (one request at a time) that fill the audit table.
AdminCallers == {1, 2, 3, 4}

InitAdmin ==
    /\ ApiIdle
    /\ bills = <<>>
    /\ KpiIdle
    /\ RateIdle

NextAdmin ==
    \/ \E principal \in AdminCallers : get_audit_log(principal)
    \/ \E principal \in AdminCallers : get_jobs(principal)
    \/ \E principal \in AdminCallers : get_users(principal)
    \/ \E principal \in AdminCallers : create_user(principal)
    \/ login(SerialRequest)
    \/ logout(SerialRequest)
    \/ CommitOk(SerialRequest)
    \/ CommitFail(SerialRequest)

SpecAdmin == InitAdmin /\ [][NextAdmin]_vars

\* The users endpoints: concurrent create_user requests, and get_users.
InitUsers ==
    /\ ApiIdle
    /\ bills = <<>>
    /\ KpiIdle
    /\ RateIdle

NextUsers ==
    \/ \E r \in RequestIds : CreateUserAdd(r)
    \/ \E r \in RequestIds : CreateUserCommit(r)
    \/ \E principal \in Identities : get_users(principal)

SpecUsers == InitUsers /\ [][NextUsers]_vars

\* Audit.log_action called with any arguments, and the two serializations
\* of the records it commits.
InitLogAction ==
    /\ ApiIdle
    /\ bills = <<>>
    /\ KpiIdle
    /\ RateIdle

NextLogAction ==
    \/ LogActionAdd(SerialRequest)
    \/ CommitOk(SerialRequest)
    \/ CommitFail(SerialRequest)
    \/ CallGetSummary
    \/ \E principal \in Identities : get_audit_log(principal)

SpecLogAction == InitLogAction /\ [][NextLogAction]_vars

\* ------------------------------------------- the vocabulary of the claims
RECURSIVE SumSeq(_)
SumSeq(s) == IF s = <<>> THEN 0 ELSE s[1] + SumSeq(Tail(s))

\* The data model's invariant of a rate structure: no negative fixed charge
\* or price, finite bounds strictly increasing, an unbounded tier only last
\* (so at most one).
WellFormed(structure) ==
    LET tiers == structure.tiers IN
    /\ structure.fixed_charge >= 0
    /\ \A i \in 1..Len(tiers) : tiers[i].price >= 0
    /\ \A i, j \in 1..Len(tiers) :
           (i < j /\ tiers[i].has_up_to /\ tiers[j].has_up_to)
               => tiers[i].up_to < tiers[j].up_to
    /\ \A i \in 1..Len(tiers) : ~tiers[i].has_up_to => i = Len(tiers)

UnboundedLast(structure) ==
    /\ Len(structure.tiers) >= 1
    /\ ~structure.tiers[Len(structure.tiers)].has_up_to

Returned == rate_pc = "returned"

\* The sum of price * quantity over the tiers charged.
RECURSIVE ChargeOf(_, _)
ChargeOf(tiers, charged) ==
    IF charged = <<>> THEN 0
    ELSE LET k == Len(charged) IN
         tiers[k].price * charged[k] + ChargeOf(tiers, SubSeq(charged, 1, k - 1))

\* ---------------------------------------------------------------- claims

\* C1: for consumption >= 0 and a well-formed structure whose last tier is
\* unbounded, every tier charged takes min(remaining, its bound minus the
\* consumption the earlier tiers already took), and the bill is the fixed
\* charge plus price * quantity over the tiers: bounds are cumulative.
C1_CumulativeTierBounds ==
    (Returned /\ consumption >= 0 /\ ~structure_json.falsy
        /\ WellFormed(structure_json) /\ UnboundedLast(structure_json))
    => /\ \A k \in 1..Len(bill.charged) :
              LET before == SumSeq(SubSeq(bill.charged, 1, k - 1))
                  tier == structure_json.tiers[k]
              IN bill.charged[k] =
                     IF tier.has_up_to
                     THEN Min(consumption - before, tier.up_to - before)
                     ELSE consumption - before
       /\ bill.total_charge =
              structure_json.fixed_charge
                  + ChargeOf(structure_json.tiers, bill.charged)

\* C2: for consumption >= 0 and a well-formed structure whose last tier is
\* unbounded, the quantities the tiers charge sum to the consumption and
\* nothing remains when the loop ends.
C2_AllConsumptionCharged ==
    (Returned /\ consumption >= 0 /\ ~structure_json.falsy
        /\ WellFormed(structure_json) /\ UnboundedLast(structure_json))
    => /\ SumSeq(bill.charged) = consumption
       /\ bill.remaining_consumption = 0

C2_Witness ==
    /\ Returned /\ consumption = MaxConsumption
    /\ WellFormed(structure_json) /\ UnboundedLast(structure_json)
    /\ Len(structure_json.tiers) = 3
    /\ Len(bill.charged) = 3 /\ bill.charged[3] > 0

\* C3: for a well-formed structure, an empty tier list included, a
\* consumption of 0 is billed the fixed charge and no tier is charged.
C3_ZeroConsumptionBillsFixedCharge ==
    (Returned /\ consumption = 0 /\ WellFormed(structure_json))
    => /\ bill.outcome = "return"
       /\ bill.total_charge = structure_json.fixed_charge
       /\ bill.charged = <<>>

C3_Witness ==
    /\ Returned /\ consumption = 0 /\ WellFormed(structure_json)
    /\ structure_json.fixed_charge > 0
    /\ Len(structure_json.tiers) >= 2 /\ structure_json.tiers[1].price > 0
    /\ bill.total_charge = structure_json.fixed_charge

\* C4: for consumption >= 0 and a well-formed structure the bill is never
\* below the fixed charge.
C4_BillAtLeastFixedCharge ==
    (Returned /\ consumption >= 0 /\ WellFormed(structure_json))
    => bill.total_charge >= structure_json.fixed_charge

C4_Witness ==
    /\ Returned /\ consumption > 0 /\ WellFormed(structure_json)
    /\ structure_json.fixed_charge > 0
    /\ Len(bill.charged) >= 2
    /\ bill.total_charge > structure_json.fixed_charge

\* C5: for a well-formed structure the bill is monotone in the consumption:
\* no smaller consumption c1 >= 0 is billed more than the call's consumption.
C5_MonotoneInConsumption ==
    (Returned /\ consumption >= 0 /\ WellFormed(structure_json))
    => \A c1 \in 0..consumption :
           calculate_bill(structure_json, c1).total_charge <= bill.total_charge

C5_Witness ==
    /\ Returned /\ consumption >= 2 /\ WellFormed(structure_json)
    /\ Len(bill.charged) >= 2
    /\ calculate_bill(structure_json, 1).total_charge < bill.total_charge
    /\ calculate_bill(structure_json, 0).total_charge
           < calculate_bill(structure_json, 1).total_charge

\* C6: a call (with a consumption >= 0) on a malformed structure ends in a
\* configuration error, before any tier is charged, and returns no amount.
C6_MalformedStructureRejected ==
    (Returned /\ consumption >= 0 /\ ~WellFormed(structure_json))
    => /\ bill.outcome = "ConfigurationError"
       /\ bill.charged = <<>>

\* C7: the response's total_revenue is the sum of the amounts of the bills
\* aggregated and its collection_rate is paid / total * 100 (to the one
\* decimal the response carries), 0 when the total is 0, with no error; for
\* amounts >= 0 the rate is within 0..100.
Amounts(rows) == [i \in 1..Len(rows) |-> rows[i].amount]
PaidAmounts(rows) ==
    [i \in 1..Len(rows) |-> IF rows[i].paid_flag THEN rows[i].amount ELSE 0]
NonNegative(rows) == \A i \in 1..Len(rows) : rows[i].amount >= 0
Abs(x) == IF x < 0 THEN -x ELSE x

C7_RevenueAndCollectionRate ==
    (kpi_pc # "idle" /\ NonNegative(fetched))
    => LET total == SumSeq(Amounts(fetched))
           paid == SumSeq(PaidAmounts(fetched))
       IN /\ kpis.status = 200
          /\ kpis.total_revenue = total
          /\ total = 0 => kpis.collection_rate = 0
          /\ total > 0 =>
                 2 * Abs(kpis.collection_rate * total - paid * 1000) <= total
          /\ kpis.collection_rate \in 0..1000

\* C8: aggregating no bills (no ACTIVE dataset, or an ACTIVE dataset without
\* bills) answers total_revenue 0, collection_rate 0 and customer_count 0,
\* and no error.
C8_EmptyBillSetYieldsZeros ==
    (kpi_pc # "idle" /\ fetched = <<>>)
    => /\ kpis.status = 200
       /\ kpis.total_revenue = 0
       /\ kpis.collection_rate = 0
       /\ kpis.customer_count = 0

\* C9: the response is the same whatever order the bills aggregated come in,
\* and its customer_count is the number of distinct account ids among them.
Reorderings(rows) ==
    {[k \in 1..Len(rows) |-> rows[o[k]]] :
        o \in {f \in [1..Len(rows) -> 1..Len(rows)] :
                  \A a, b \in 1..Len(rows) : a # b => f[a] # f[b]}}

C9_OrderIndependentDistinctCount ==
    kpi_pc # "idle"
    => /\ \A rows \in Reorderings(fetched) :
              kpis = IF kpi_pc = "computed" THEN computed_kpis(rows)
                     ELSE get_mock_kpis
       /\ kpis.customer_count =
              Cardinality({fetched[i].account_id : i \in 1..Len(fetched)})

\* C10: a negative consumption passed to calculate_bill (of a well-formed
\* structure) is rejected with a validation error: no tier is charged and no
\* amount is returned.
C10_NegativeConsumptionRejected ==
    (Returned /\ consumption < 0 /\ ~structure_json.falsy
        /\ WellFormed(structure_json))
    => /\ bill.outcome = "ValidationError"
       /\ bill.charged = <<>>

\* C10, the aggregation's half (under SpecKpi): a bill with a negative
\* amount among those aggregated is rejected with a validation error.
C10_NegativeAmountRejected ==
    (kpi_pc # "idle" /\ ~NonNegative(fetched)) => kpis.status = 400

\* C11: for a principal and a required role among viewer, analyst, admin,
\* has_permission is true exactly when the principal's role is at least the
\* required one in the order viewer < analyst < admin: admin satisfies
\* viewer, viewer does not satisfy admin, every role satisfies itself.
RoleOrder == <<VIEWER, ANALYST, ADMIN>>
Recognized(role) == \E i \in 1..Len(RoleOrder) : RoleOrder[i] = role
Ordinal(role) == CHOOSE i \in 1..Len(RoleOrder) : RoleOrder[i] = role
PermRole == users[perm.user_id].role

C11_RoleHierarchy ==
    (perm.called /\ Recognized(PermRole) /\ Recognized(perm.required_role))
    => /\ perm.result = (Ordinal(PermRole) >= Ordinal(perm.required_role))
       /\ (PermRole = ADMIN /\ perm.required_role = VIEWER) => perm.result
       /\ (PermRole = VIEWER /\ perm.required_role = ADMIN) => ~perm.result
       /\ PermRole = perm.required_role => perm.result

C11_Witness ==
    /\ perm.called /\ PermRole = ANALYST /\ perm.required_role = ANALYST
    /\ perm.result

\* C12: has_permission is false whenever the principal's role is no
\* recognized role, and whenever the required role is no recognized role.
C12_UnrecognizedRoleNeverAuthorized ==
    (perm.called /\ (~Recognized(PermRole) \/ ~Recognized(perm.required_role)))
    => ~perm.result

\* C13: every privileged operation (user creation, user listing, audit-log
\* read, dataset upload, dataset activation) checks the caller's role before
\* it changes or returns any state, and an audit record for the request is
\* written after it, whether the caller was authorized or rejected.
PrivilegedOps ==
    {"create_user", "get_users", "get_audit_log", "upload_dataset",
     "commit_dataset"}

\* The role an operation requires: admin where the code asks for one, and
\* any recognized role elsewhere.
RequiredRole(op) ==
    IF op \in {"create_user", "get_users", "get_audit_log"} THEN ADMIN
    ELSE VIEWER

PrivilegedStep ==
    /\ response'.op \in PrivilegedOps
    /\ response' # response \/ users' # users \/ datasets' # datasets

Authorized(principal, op) ==
    IF UserExists(principal)
    THEN has_permission(users[principal].role, RequiredRole(op))
    ELSE FALSE

C13_PrivilegedOperationsCheckedAndAudited ==
    [][PrivilegedStep =>
          /\ (response'.status \in 200..299 \/ users' # users
                  \/ datasets' # datasets)
                 => Authorized(response'.principal, response'.op)
          /\ Len(audits') = Len(audits) + 1
          /\ audits'[Len(audits')].user_id = response'.principal]_vars

\* C14: every committed audit record has an identifier and a creation
\* timestamp; of two records, the one committed later has the strictly
\* greater identifier, so no identifier is used twice.
C14_IdentifiersStrictlyIncrease ==
    /\ \A i \in 1..Len(audits) :
           /\ audits[i].id \in Nat \ {0}
           /\ audits[i].created_at \in 0..now
    /\ \A i, j \in 1..Len(audits) : i < j => audits[i].id < audits[j].id

C14_Witness ==
    /\ Len(audits) >= 2
    /\ audits[1].id < audits[2].id

\* C15: an audit-log read returns the first n records (n the limit) of the
\* ledger sorted by creation time, latest first, records of one creation
\* time by larger identifier first, and it leaves the ledger as it was.
NewestFirst(rows) ==
    \A i, j \in 1..Len(rows) :
        i < j => \/ rows[i].created_at > rows[j].created_at
                 \/ /\ rows[i].created_at = rows[j].created_at
                    /\ rows[i].id > rows[j].id

Recent(table, n) ==
    LET sorted == CHOOSE o \in Orderings(table) : NewestFirst(o)
        shown == SubSeq(sorted, 1, Min(n, Len(sorted)))
    IN [i \in 1..Len(shown) |-> audit_log_item(shown[i])]

AuditReadStep ==
    /\ response' # response
    /\ response'.op = "get_audit_log"
    /\ response'.status = 200

C15_ReadReturnsNewestFirst ==
    [][AuditReadStep =>
          /\ Len(response'.data) <= AuditLogLimit
          /\ response'.data = Recent(audits, AuditLogLimit)
          /\ audits' = audits]_vars

\* C16: the audit ledger is append-only: whatever the system does, every
\* committed record stays in the ledger with all its fields as they were,
\* and the ledger only grows.
IsPrefix(old, new) ==
    /\ Len(old) <= Len(new)
    /\ \A i \in 1..Len(old) : new[i] = old[i]

C16_AppendOnly == [][IsPrefix(audits, audits')]_vars

C16_Witness ==
    /\ Len(audits) >= 2
    /\ response.op = "get_audit_log"
    /\ response.status = 200

\* C17: when the commit of the audit record fails in login or logout, the
\* caller gets an error (no tokens, no 'Logged out successfully'), the error
\* tells a persistence failure of the audit store from any other failure,
\* and the session holds no pending audit record afterwards.
CommitFailedStep(r) ==
    /\ sessions[r].pc = "added"
    /\ sessions[r].op \in {"login", "logout"}
    /\ sessions'[r] # sessions[r]
    /\ audits' = audits

OtherFailures(op, principal) ==
    {sent(IF op = "login" THEN login_except(exc)
          ELSE logout_except(principal, exc)) :
        exc \in Exceptions \ {OperationalError}}

C17_AuditFailureSurfaced ==
    [][\A r \in RequestIds :
           CommitFailedStep(r) =>
               /\ response'.status >= 400
               /\ response'.data = <<>>
               /\ response'.message # "Logged out successfully"
               /\ sent(response') \notin
                      OtherFailures(sessions[r].op, sessions[r].user_id)
               /\ sessions'[r].pc # "added"]_vars

\* C19: each append is atomic under every interleaving of appends and
\* reads: a successful commit adds exactly its one record, whole, under an
\* identifier no other record has; a read shows only whole committed
\* records; no two records of the ledger share an identifier.
AuditColumns ==
    {"id", "action", "user_id", "resource_type", "resource_id", "description",
     "payload_json", "ip_address", "created_at"}

CommittedStep(r) ==
    /\ sessions[r].pc = "added"
    /\ sessions'[r].pc = "idle"
    /\ response'.status = 200

WholeRecord(row, entry) ==
    /\ DOMAIN row = AuditColumns
    /\ \A column \in DOMAIN entry : row[column] = entry[column]

C19_AppendsAreAtomic ==
    /\ [][\A r \in RequestIds :
              CommittedStep(r) =>
                  /\ Len(audits') = Len(audits) + 1
                  /\ IsPrefix(audits, audits')
                  /\ WholeRecord(audits'[Len(audits')], sessions[r].entry)
                  /\ \A i \in 1..Len(audits) :
                         audits[i].id # audits'[Len(audits')].id]_vars
    /\ [](\A i, j \in 1..Len(audits) :
              /\ DOMAIN audits[i] = AuditColumns
              /\ i # j => audits[i].id # audits[j].id)
    /\ []((response.op = "get_audit_log" /\ response.status = 200) =>
              \A k \in 1..Len(response.data) :
                  \E i \in 1..Len(audits) :
                      response.data[k] = audit_log_item(audits[i]))

C19_Witness ==
    /\ Len(audits) >= 1
    /\ \E r \in RequestIds : sessions[r].pc = "added"
    /\ response.op = "get_audit_log"
    /\ response.status = 200
    /\ Len(response.data) = Len(audits)

\* C18: no audit record stores a known-sensitive key of the payload its
\* caller passed: the persisted payload_json has such keys stripped, or the
\* append was rejected and there is no record.
SensitiveKeys == {"password", "password_hash", "token", "secret"}

C18_NoSensitiveKeyPersisted ==
    \A i \in 1..Len(audits) :
        \A item \in audits[i].payload_json.items : item[1] \notin SensitiveKeys

\* C20: every serialized audit record has id, action, resource, user_email,
\* timestamp, description and ip_address; resource is "<type>:<id>" when the
\* record has both a resource type and a resource id and null otherwise;
\* user_email is "System" exactly when the record has no acting principal.
SerializedKeys ==
    {"id", "action", "resource", "user_email", "timestamp", "description",
     "ip_address"}

ResourceOf(row) ==
    IF row.resource_type # None /\ row.resource_id # None
    THEN <<row.resource_type, ":", row.resource_id>>
    ELSE None

C20_SerializedShape ==
    (response.op \in {"get_audit_log", "get_summary"})
    => \A k \in 1..Len(response.data) :
           /\ DOMAIN response.data[k] = SerializedKeys
           /\ \E i \in 1..Len(audits) :
                  /\ audits[i].id = response.data[k].id
                  /\ response.data[k].resource = ResourceOf(audits[i])
                  /\ (response.data[k].user_email = "System")
                         <=> (audits[i].user_id = NoUser)

\* C21: in every reachable state at most one dataset is ACTIVE: after any
\* interleaving of commit_dataset requests the dataset committed last is the
\* only ACTIVE one (those that were ACTIVE before are VALIDATED), and a
\* commit_dataset that fails leaves every dataset's status as it was.
CommitDatasetFailedStep ==
    /\ response' # response
    /\ response'.op = "commit_dataset"
    /\ response'.status # 200

C21_AtMostOneActive ==
    /\ Cardinality(ActiveDatasets) <= 1
    /\ (response.op = "commit_dataset" /\ response.status = 200)
           => ActiveDatasets = {response.data[1].dataset_id}

C21_FailedCommitChangesNothing ==
    [][CommitDatasetFailedStep => datasets' = datasets]_vars

\* C22: no two users share an email: create_user with an email the table
\* has answers an error and leaves the table as it was, and of concurrent
\* create_user requests with one email at most one stores its user.
CreateUserErrorStep ==
    /\ response' # response
    /\ response'.op = "create_user"
    /\ response'.status >= 400

C22_EmailsUnique ==
    /\ [](\A i, j \in 1..Len(users) :
              i # j => users[i].email # users[j].email)
    /\ [][CreateUserErrorStep => users' = users]_vars

C22_Witness ==
    /\ response.op = "create_user"
    /\ response.raised = IntegrityError
    /\ Cardinality({i \in 1..Len(users) : users[i].email = "new@vaurms.com"})
           = 1

\* C23: login issues tokens only for an existing, active user whose password
\* matches; a successful login appends exactly one LOGIN record of that user
\* before it answers; a rejected login (missing fields, unknown or inactive
\* user, wrong password) issues no token and appends no record.
LoginSucceededStep(r) ==
    /\ sessions[r].pc = "added"
    /\ sessions[r].op = "login"
    /\ sessions'[r].pc = "idle"
    /\ response'.status = 200

LoginAnsweredStep ==
    /\ response'.op = "login"
    /\ response' # response \/ audits' # audits

C23_LoginIssuesTokensAndAudits ==
    /\ [][\A r \in RequestIds :
              LoginSucceededStep(r) =>
                  LET p == response'.principal
                      body == sessions[r].body
                  IN /\ UserExists(p)
                     /\ users[p].email = body.email
                     /\ users[p].is_active
                     /\ users[p].password_hash = hashpw(body.password)
                     /\ Len(response'.data) = 1
                     /\ response'.data[1].access_token = <<"jwt", p>>
                     /\ Len(audits') = Len(audits) + 1
                     /\ IsPrefix(audits, audits')
                     /\ audits'[Len(audits')].action = LOGIN
                     /\ audits'[Len(audits')].user_id = p]_vars
    /\ [][(LoginAnsweredStep
               /\ ~ \E r \in RequestIds : LoginSucceededStep(r))
              => /\ response'.status # 200
                 /\ response'.data = <<>>
                 /\ audits' = audits]_vars

C23_Witness ==
    /\ response.op = "login"
    /\ response.status = 200
    /\ \E i \in 1..Len(users) : ~users[i].is_active
    /\ Len(audits) >= 1
    /\ audits[Len(audits)].user_id = response.principal

\* C24: get_audit_log, get_jobs, get_users and create_user answer access
\* denied, and read and change no user or audit state, whenever the caller
\* does not exist or has a role other than admin; create_user adds no user
\* for a viewer or an analyst.
AdminOps == {"get_audit_log", "get_jobs", "get_users", "create_user"}

AdminOpStep ==
    /\ response'.op \in AdminOps
    /\ response' # response \/ users' # users \/ audits' # audits

NotAdmin(principal) ==
    \A i \in 1..Len(users) : i = principal => users[i].role # ADMIN

C24_AdminOnlyEndpointsDeny ==
    [][(AdminOpStep /\ NotAdmin(response'.principal))
          => /\ response'.status = 403
             /\ response'.data = <<>>
             /\ users' = users
             /\ audits' = audits]_vars

C24_Witness ==
    /\ response.op = "create_user"
    /\ response.status = 403
    /\ response.principal = 2
    /\ Len(users) = 4
    /\ Len(audits) >= 1

====
